---- MODULE Spec2Model ----
(***************************************************************************)
(* Model of notebooks/1.02-vr-ggs-data-preprocessing.ipynb:                *)
(*   preprocess_data(df)     the Normalizer                                *)
(*   create_meal_labels(df)  the Segment Labeler                           *)
(* A notebook session calls the two functions, one call at a time.         *)
(***************************************************************************)
EXTENDS Integers, Sequences, FiniteSets, TLC

\* Longest frame handed directly to create_meal_labels.
MaxLen == 4
\* Longest raw frame handed to preprocess_data.
MaxRows == 3

(***************************************************************************)
(* Cells.  A pandas cell is a tagged value: a string, a number, NaN, a     *)
(* timestamp or NaT.  The unused payload fields are kept at "" and 0 so    *)
(* that equality of records is equality of cells.                          *)
(***************************************************************************)
Str(s) == [k |-> "str", s |-> s, n |-> 0]
Num(n) == [k |-> "num", s |-> "", n |-> n]
\* The number h/2, for an odd h: a number that is not an integer.
Half(h) == [k |-> "num", s |-> "/2", n |-> h]
NaN == [k |-> "nan", s |-> "", n |-> 0]
Ts(t) == [k |-> "ts", s |-> "", n |-> t]
NaT == [k |-> "nat", s |-> "", n |-> 0]
\* A string written in the format '%Y-%m-%d %H:%M:%S%z' that denotes instant t.
DateStr(t) == [k |-> "str", s |-> "%Y-%m-%d %H:%M:%S%z", n |-> t]

(***************************************************************************)
(* Column names are sequences of tokens, so that Python's substring test   *)
(* `x in col` is the test for a contiguous sub-sequence.                   *)
(***************************************************************************)
ColDate == <<"date">>
ColMsgType == <<"msg_type">>
ColFob == <<"affects_fob">>
ColIob == <<"affects_iob">>
ColBgl == <<"bgl">>
\* A further column whose name happens to hold the text 'msg_type'.
ColMsgTypeId == <<"msg_type", "_id">>

Contains(col, sub) ==
  \E a \in 1..(Len(col) - Len(sub) + 1) : SubSeq(col, a, a + Len(sub) - 1) = sub

\* A frame: its column names, its index labels and its rows (column -> cell).
Frame(columns, index, rows) == [columns |-> columns, index |-> index, rows |-> rows]
RangeIndex(n) == [p \in 1..n |-> Num(p - 1)]
Column(df, col) == [p \in 1..Len(df.rows) |-> df.rows[p][col]]

SeqsUpTo(S, n) == UNION {[1..m -> S] : m \in 0..n}

(***************************************************************************)
(* create_meal_labels                                                      *)
(***************************************************************************)
\* meal_start = df['msg_type'] == 'ANNOUNCE_MEAL'
IsMealStart(cell) == cell = Str("ANNOUNCE_MEAL")
\* Mutant: an insulin dose is taken for the end of a meal.
IsMealEnd_dose(cell) == cell \in {Str("MEAL_END"), Str("DOSE_INSULIN")}

\* meal_end = df['msg_type'] == 'MEAL_END'
IsMealEnd(cell) == cell = Str("MEAL_END")

\* Mutant: the identifier is inserted at the bottom of the stack.
PushStart_front(st, start) ==
  IF start
    THEN [active_meals |-> <<st.meal_counter>> \o st.active_meals,
          meal_counter |-> st.meal_counter + 1]
    ELSE st

\* Mutant: the counter is incremented before it is appended.
PushStart_preinc(st, start) ==
  IF start
    THEN [active_meals |-> Append(st.active_meals, st.meal_counter + 1),
          meal_counter |-> st.meal_counter + 1]
    ELSE st

\* Mutant: the counter is not incremented.
PushStart_noinc(st, start) ==
  IF start
    THEN [active_meals |-> Append(st.active_meals, st.meal_counter),
          meal_counter |-> st.meal_counter]
    ELSE st

\* if meal_start.iloc[i]: active_meals.append(meal_counter); meal_counter += 1
PushStart(st, start) ==
  IF start
    THEN [active_meals |-> Append(st.active_meals, st.meal_counter),
          meal_counter |-> st.meal_counter + 1]
    ELSE st

\* Mutant: the top of the stack is read without the test for an empty stack.
LabelGuard_always(stack) == TRUE

\* if len(active_meals) > 0:
LabelGuard(stack) == Len(stack) > 0

\* Mutant: the stack is popped without the test for an empty stack.
PopGuard_unguarded(stack, end) == end

\* if meal_end.iloc[i] and len(active_meals) > 0:
PopGuard(stack, end) == end /\ Len(stack) > 0

\* active_meals[-1] and active_meals.pop() raise IndexError on an empty list
Raises(stack, end) == (LabelGuard(stack) \/ PopGuard(stack, end)) /\ Len(stack) = 0

\* Mutant: the number of open meals is emitted instead of the last opened one.
LabelOf_depth(stack, zero) == Len(stack)

\* Mutant: the first opened meal is emitted instead of the last opened one.
LabelOf_first(stack, zero) == IF Len(stack) > 0 THEN stack[1] ELSE zero

\* labels[i] = active_meals[-1]   (else the zero of np.zeros stays)
LabelOf(stack, zero) == IF LabelGuard(stack) THEN stack[Len(stack)] ELSE zero

\* Mutant: an end closes every open meal.
PopEnd_clear(stack, end) == IF end /\ Len(stack) > 0 THEN <<>> ELSE stack

\* active_meals.pop()
PopEnd(stack, end) ==
  IF PopGuard(stack, end) THEN SubSeq(stack, 1, Len(stack) - 1) ELSE stack

\* Mutant: the stack is popped before the row is labelled.
LoopBody_popfirst(st, start, end, zero) ==
  LET pushed == PushStart(st, start)
      stack == PopEnd(pushed.active_meals, end)
  IN  [error |-> "", active_meals |-> stack,
       meal_counter |-> pushed.meal_counter, label |-> LabelOf(stack, zero)]

\* The loop body on the row with predicates (start, end), zero being labels[i].
LoopBody(st, start, end, zero) ==
  LET pushed == PushStart(st, start)
      stack == pushed.active_meals
  IN  IF Raises(stack, end)
        THEN [error |-> "IndexError", active_meals |-> stack,
              meal_counter |-> pushed.meal_counter, label |-> zero]
        ELSE [error |-> "", active_meals |-> PopEnd(stack, end),
              meal_counter |-> pushed.meal_counter, label |-> LabelOf(stack, zero)]

\* labels = np.zeros(len(df)); meal_counter = 1; active_meals = []
InitialCounter == 1
Zeros(n) == [p \in 1..n |-> 0]
EntryState == [active_meals |-> <<>>, meal_counter |-> InitialCounter]

\* The whole function on the predicate columns: the labels, or the error raised.
RECURSIVE ScanFrom(_, _, _, _, _)
ScanFrom(st, starts, ends, done, p) ==
  IF p > Len(starts) THEN [kind |-> "labels", labels |-> done]
  ELSE LET nx == LoopBody(st, starts[p], ends[p], 0)
       IN  IF nx.error # "" THEN [kind |-> "error", error |-> nx.error]
           ELSE ScanFrom([active_meals |-> nx.active_meals,
                          meal_counter |-> nx.meal_counter],
                         starts, ends, Append(done, nx.label), p + 1)

create_meal_labels(frame) ==
  IF ColMsgType \notin frame.columns THEN [kind |-> "error", error |-> "KeyError"]
  ELSE LET col == Column(frame, ColMsgType)
       IN  ScanFrom(EntryState,
                    [p \in 1..Len(col) |-> IsMealStart(col[p])],
                    [p \in 1..Len(col) |-> IsMealEnd(col[p])], <<>>, 1)

(***************************************************************************)
(* preprocess_data                                                         *)
(***************************************************************************)
\* df = df.fillna(0)
FillNaCell(x) == IF x = NaN THEN Num(0) ELSE x

FillNa(df) ==
  [df EXCEPT !.rows = [p \in 1..Len(df.rows) |->
                         [c \in df.columns |-> FillNaCell(df.rows[p][c])]]]

\* df['msg_type'] = df['msg_type'].replace(0, 'NULL')
ReplaceCell(x) == IF x = Num(0) THEN Str("NULL") ELSE x

ReplaceNull(df) ==
  [df EXCEPT !.rows = [p \in 1..Len(df.rows) |->
                         [c \in df.columns |->
                            IF c = ColMsgType THEN ReplaceCell(df.rows[p][c])
                            ELSE df.rows[p][c]]]]

\* pd.to_datetime(x, format='%Y-%m-%d %H:%M:%S%z', errors='coerce', utc=True)
ParseDate(x) ==
  IF x.k = "str" /\ x.s = "%Y-%m-%d %H:%M:%S%z" THEN Ts(x.n) ELSE NaT

ToDatetime(df) ==
  [df EXCEPT !.rows = [p \in 1..Len(df.rows) |->
                         [c \in df.columns |->
                            IF c = ColDate THEN ParseDate(df.rows[p][c])
                            ELSE df.rows[p][c]]]]

\* The positions, in order, of the rows that a boolean mask keeps.
RECURSIVE KeptFrom(_, _)
KeptFrom(mask, p) ==
  IF p > Len(mask) THEN <<>>
  ELSE (IF mask[p] THEN <<p>> ELSE <<>>) \o KeptFrom(mask, p + 1)

\* df.take(positions): the rows and their index labels, in the order given.
Take(df, pos) ==
  [df EXCEPT !.rows = [a \in 1..Len(pos) |-> df.rows[pos[a]]],
             !.index = [a \in 1..Len(pos) |-> df.index[pos[a]]]]

\* Mutant: no row is dropped.
DropNaDate_none(df) == df

\* df = df.dropna(subset=['date'])
DropNaDate(df) ==
  Take(df, KeptFrom([p \in 1..Len(df.rows) |-> df.rows[p][ColDate] # NaT], 1))

\* The indexers nargsort may hand back for df.sort_values('date'): the default
\* kind is 'quicksort', which pandas documents as not stable, so every
\* permutation that puts the keys in ascending order is a possible outcome.
ArgSorts(keys) ==
  {idx \in [1..Len(keys) -> 1..Len(keys)] :
     /\ \A a, b \in 1..Len(keys) : a # b => idx[a] # idx[b]
     /\ \A a \in 1..(Len(keys) - 1) : keys[idx[a]].n <= keys[idx[a + 1]].n}

\* df.set_index('date', inplace=True)
SetIndexDate(df) ==
  [columns |-> df.columns \ {ColDate},
   index |-> Column(df, ColDate),
   rows |-> [p \in 1..Len(df.rows) |->
               [c \in df.columns \ {ColDate} |-> df.rows[p][c]]]]

\* Mutant: only a positive value counts as set.
CoerceFlag_positive(x) == IF x.k = "num" /\ x.n > 0 THEN Num(1) ELSE Num(0)

\* lambda x: 1 if x != 0 else 0
CoerceFlag(x) == IF x # Num(0) THEN Num(1) ELSE Num(0)

CoerceFlags(df) ==
  [df EXCEPT !.rows = [p \in 1..Len(df.rows) |->
                         [c \in df.columns |->
                            IF c \in {ColFob, ColIob} THEN CoerceFlag(df.rows[p][c])
                            ELSE df.rows[p][c]]]]

RELEVANT_MSG_TYPES ==
  {"ANNOUNCE_MEAL", "INTERVENTION_SNACK", "ANNOUNCE_EXERCISE", "DOSE_INSULIN",
   "DOSE_BASAL_INSULIN"}

\* The text of a category, cut where the name of another category ends in it.
Tokens(cat) ==
  IF cat = "ANNOUNCE_MEAL_EDIT" THEN <<"ANNOUNCE_MEAL", "_EDIT">> ELSE <<cat>>

\* encoder.get_feature_names_out(['msg_type']): 'msg_type_' + category
FeatureName(cat) == <<"msg_type", "_">> \o Tokens(cat)

\* categories='auto': the distinct values of the column that was fitted
Categories(df) == {df.rows[p][ColMsgType].s : p \in 1..Len(df.rows)}

\* encoded_df; df.drop(columns=['msg_type']); pd.concat([df, encoded_df], axis=1)
OneHotConcat(df) ==
  LET feats == {FeatureName(cat) : cat \in Categories(df)}
      kept == df.columns \ {ColMsgType}
  IN  [columns |-> kept \cup feats,
       index |-> df.index,
       rows |-> [p \in 1..Len(df.rows) |->
                   [c \in kept \cup feats |->
                      IF c \in kept THEN df.rows[p][c]
                      ELSE IF c = FeatureName(df.rows[p][ColMsgType].s)
                             THEN Num(1) ELSE Num(0)]]]

\* [col for col in df.columns if 'msg_type' in col
\*      and not any(msg_type in col for msg_type in RELEVANT_MSG_TYPES)]
ColumnsToDrop(df) ==
  {col \in df.columns :
     /\ Contains(col, <<"msg_type">>)
     /\ ~ \E m \in RELEVANT_MSG_TYPES : Contains(col, <<m>>)}

DropColumns(df, drop) ==
  [columns |-> df.columns \ drop,
   index |-> df.index,
   rows |-> [p \in 1..Len(df.rows) |-> [c \in df.columns \ drop |-> df.rows[p][c]]]]

\* The frame as it reaches sort_values.
BeforeSort(raw) == DropNaDate(ToDatetime(ReplaceNull(FillNa(raw))))

\* From sort_values to the return, when nargsort answers idx.
AfterSort(sel, idx) ==
  LET enc == OneHotConcat(CoerceFlags(SetIndexDate(Take(sel, idx))))
  IN  DropColumns(enc, ColumnsToDrop(enc))

\* OneHotEncoder.fit_transform refuses an array with no samples.
preprocess_data(raw, idx) ==
  LET sel == BeforeSort(raw)
  IN  IF Len(sel.rows) = 0
        THEN [kind |-> "error", error |-> "ValueError"]
        ELSE [kind |-> "frame", frame |-> AfterSort(sel, idx)]

(***************************************************************************)
(* The inputs of the model.                                                *)
(***************************************************************************)
Instants == {1, 2}

RawRow(d, m, fob, iob, bgl) ==
  (ColDate :> d) @@ (ColMsgType :> m) @@ (ColFob :> fob) @@ (ColIob :> iob)
    @@ (ColBgl :> bgl)

RawColumns == {ColDate, ColMsgType, ColFob, ColIob, ColBgl}

\* Rows that differ in their flags, their further column and their category.
PayloadRows ==
  {RawRow(DateStr(1), Str("ANNOUNCE_MEAL"), Num(2), Num(-1), Num(7)),
   RawRow(DateStr(2), Str("DOSE_INSULIN"), Half(1), Num(0), NaN),
   RawRow(DateStr(1), Str("ANNOUNCE_MEAL_EDIT"), Num(0), NaN, NaN),
   RawRow(Str("yesterday"), Str("MEAL_END"), NaN, Num(0), Num(7))}

RawRows ==
  {RawRow(d, m, Num(0), NaN, NaN) :
     d \in {NaN} \cup {DateStr(t) : t \in Instants},
     m \in {NaN, Str("ANNOUNCE_MEAL"), Str("MEAL_END")}}
  \cup PayloadRows

\* The frame with its further column under another name.
Renamed(frame, old, new) ==
  [columns |-> (frame.columns \ {old}) \cup {new},
   index |-> frame.index,
   rows |-> [p \in 1..Len(frame.rows) |->
               [c \in (frame.columns \ {old}) \cup {new} |->
                  IF c = new THEN frame.rows[p][old] ELSE frame.rows[p][c]]]]

BglFrames ==
  {Frame(RawColumns, RangeIndex(Len(rows)), rows) : rows \in SeqsUpTo(RawRows, MaxRows)}

RawFrames ==
  BglFrames
    \cup {Renamed(Frame(RawColumns, RangeIndex(Len(rows)), rows), ColBgl, ColMsgTypeId) :
            rows \in SeqsUpTo(PayloadRows, MaxRows)}

LabelRow(m, bgl) == (ColMsgType :> m) @@ (ColBgl :> bgl)

LabelRows ==
  {LabelRow(m, Num(0)) :
     m \in {Str("NULL"), Str("ANNOUNCE_MEAL"), Str("MEAL_END"), Str("DOSE_INSULIN")}}
  \cup {LabelRow(Str("ANNOUNCE_MEAL"), Num(7)), LabelRow(Str("DOSE_INSULIN"), Num(7))}

LabelFrames ==
  {Frame({ColMsgType, ColBgl}, RangeIndex(Len(rows)), rows) :
     rows \in SeqsUpTo(LabelRows, MaxLen)}

(***************************************************************************)
(* The session.                                                            *)
(***************************************************************************)
VARIABLES
  pc,            \* "idle": nothing bound; "loop": inside create_meal_labels;
                 \* "done": the last call has returned or raised
  df,            \* the argument of the current or last call
  src,           \* where df came from: "none", "raw", "direct", "cleaned"
  indexer,       \* the indexer sort_values used in the last preprocess_data
  ret,           \* what the last call returned or raised
  meal_start, meal_end, labels, meal_counter, active_meals, i

vars ==
  <<pc, df, src, indexer, ret, meal_start, meal_end, labels, meal_counter,
    active_meals, i>>

locals == <<meal_start, meal_end, labels, meal_counter, active_meals, i>>

NoFrame == Frame({}, <<>>, <<>>)
NoRet == [kind |-> "none"]

\* No call of create_meal_labels is active: its locals do not exist.
NoLocals ==
  /\ meal_start' = <<>>
  /\ meal_end' = <<>>
  /\ labels' = <<>>
  /\ meal_counter' = 0
  /\ active_meals' = <<>>
  /\ i' = 0

Init ==
  /\ pc = "idle"
  /\ df = NoFrame
  /\ src = "none"
  /\ indexer = <<>>
  /\ ret = NoRet
  /\ meal_start = <<>>
  /\ meal_end = <<>>
  /\ labels = <<>>
  /\ meal_counter = 0
  /\ active_meals = <<>>
  /\ i = 0

\* cleaned = preprocess_data(raw)
PreprocessData ==
  /\ pc = "idle"
  /\ \E raw \in RawFrames :
       \E idx \in ArgSorts(Column(BeforeSort(raw), ColDate)) :
         /\ df' = raw
         /\ indexer' = idx
         /\ ret' = preprocess_data(raw, idx)
  /\ src' = "raw"
  /\ pc' = "done"
  /\ NoLocals

\* create_meal_labels(frame), up to the first test of the loop
Enter(frame, tag) ==
  /\ df' = frame
  /\ src' = tag
  /\ indexer' = <<>>
  /\ IF ColMsgType \in frame.columns
       THEN /\ labels' = Zeros(Len(frame.rows))
            /\ meal_start' = [p \in 1..Len(frame.rows) |->
                                IsMealStart(frame.rows[p][ColMsgType])]
            /\ meal_end' = [p \in 1..Len(frame.rows) |->
                              IsMealEnd(frame.rows[p][ColMsgType])]
            /\ meal_counter' = EntryState.meal_counter
            /\ active_meals' = EntryState.active_meals
            /\ i' = 0
            /\ ret' = NoRet
            /\ pc' = "loop"
       ELSE /\ ret' = [kind |-> "error", error |-> "KeyError"]
            /\ pc' = "done"
            /\ NoLocals

\* labels = create_meal_labels(df) on a frame that still has its msg_type column
CallDirect ==
  /\ pc = "idle"
  /\ \E frame \in LabelFrames : Enter(frame, "direct")

\* labels = create_meal_labels(cleaned), cleaned being what preprocess_data returned
CallOnCleaned ==
  /\ pc = "done"
  /\ ret.kind = "frame"
  /\ Enter(ret.frame, "cleaned")

\* one iteration of `for i in range(len(df))`; i counts the rows done
LoopIter ==
  /\ pc = "loop"
  /\ i < Len(df.rows)
  /\ LET nx == LoopBody([active_meals |-> active_meals, meal_counter |-> meal_counter],
                        meal_start[i + 1], meal_end[i + 1], labels[i + 1])
     IN  IF nx.error = ""
           THEN /\ labels' = [labels EXCEPT ![i + 1] = nx.label]
                /\ active_meals' = nx.active_meals
                /\ meal_counter' = nx.meal_counter
                /\ i' = i + 1
                /\ UNCHANGED <<pc, ret, meal_start, meal_end>>
           ELSE /\ ret' = [kind |-> "error", error |-> nx.error]
                /\ pc' = "done"
                /\ NoLocals
  /\ UNCHANGED <<df, src, indexer>>

\* return labels
Return ==
  /\ pc = "loop"
  /\ i = Len(df.rows)
  /\ ret' = [kind |-> "labels", labels |-> labels]
  /\ pc' = "done"
  /\ NoLocals
  /\ UNCHANGED <<df, src, indexer>>

\* The session drops what the last call left and is ready for any other call.
Forget ==
  /\ pc = "done"
  /\ pc' = "idle"
  /\ df' = NoFrame
  /\ src' = "none"
  /\ indexer' = <<>>
  /\ ret' = NoRet
  /\ UNCHANGED locals

Next ==
  PreprocessData \/ CallDirect \/ CallOnCleaned \/ LoopIter \/ Return \/ Forget

Spec == Init /\ [][Next]_vars

\* The loop is ordinary sequential code: once entered it runs to its return.
FairSpec == Spec /\ WF_vars(LoopIter) /\ WF_vars(Return)

(***************************************************************************)
(* What the claims speak of, stated on the input alone.                    *)
(***************************************************************************)
StartsIn(a, b) == Cardinality({p \in a..b : meal_start[p]})
EndsIn(a, b) == Cardinality({p \in a..b : meal_end[p]})

\* The meal started at row s is still open when row j is labelled: no end row
\* strictly between them found it on top of the meals opened after it.
OpenAt(s, j) ==
  /\ s <= j
  /\ meal_start[s]
  /\ \A e \in (s + 1)..(j - 1) : EndsIn(s + 1, e) <= StartsIn(s + 1, e)

OpenSet(j) == {s \in 1..j : OpenAt(s, j)}
MaxOf(S) == CHOOSE x \in S : \A y \in S : y <= x
RowKinds(frame) == {frame.rows[p][ColMsgType].s : p \in 1..Len(frame.rows)}

\* One label per row, each a natural number, and no error on a direct call.
C1_Shape ==
  /\ pc = "loop" =>
       /\ Len(labels) = Len(df.rows)
       /\ \A j \in 1..Len(labels) : labels[j] \in Nat
  /\ (pc = "done" /\ src = "direct") =>
       /\ ret.kind = "labels"
       /\ Len(ret.labels) = Len(df.rows)
       /\ \A j \in 1..Len(ret.labels) : ret.labels[j] \in Nat

\* C1: for every input with a msg_type column create_meal_labels ends without
\* an error and returns one non-negative integer label per input row.
C1_Total == [] C1_Shape /\ ((pc = "loop") ~> (pc = "done" /\ ret.kind = "labels"))

C1_Witness ==
  /\ pc = "done"
  /\ src = "direct"
  /\ ret.kind = "labels"
  /\ Len(df.rows) = 3
  /\ RowKinds(df) = {"ANNOUNCE_MEAL", "MEAL_END", "NULL"}
  /\ Len(ret.labels) = 3

\* C2: the k-th meal-start row is given identifier k and is labelled k, and no
\* row before it carries label k.
C2_KthStart ==
  pc = "loop" =>
    /\ meal_counter = StartsIn(1, i) + 1
    /\ \A j \in 1..i :
         meal_start[j] =>
           /\ labels[j] = StartsIn(1, j)
           /\ \A h \in 1..(j - 1) : labels[h] # StartsIn(1, j)

C2_Witness ==
  /\ pc = "loop"
  /\ i = 3
  /\ meal_start = <<TRUE, FALSE, TRUE>>
  /\ labels = <<1, 1, 2>>
  /\ meal_counter = 3

\* C3: a row with an open meal is labelled with the identifier of the most
\* recently opened meal that is still open; [start, start, end, end] gives
\* [1, 2, 2, 1].
C3_LastOpenedWins ==
  pc = "loop" =>
    /\ \A j \in 1..i :
         OpenSet(j) # {} => labels[j] = StartsIn(1, MaxOf(OpenSet(j)))
    /\ (/\ i = 4
        /\ meal_start = <<TRUE, TRUE, FALSE, FALSE>>
        /\ meal_end = <<FALSE, FALSE, TRUE, TRUE>>) => labels = <<1, 2, 2, 1>>

C3_Witness ==
  /\ pc = "loop"
  /\ i = 4
  /\ meal_start = <<TRUE, TRUE, FALSE, FALSE>>
  /\ meal_end = <<FALSE, FALSE, TRUE, TRUE>>
  /\ labels = <<1, 2, 2, 1>>
  /\ active_meals = <<>>

\* C4: a row is labelled 0 exactly when no meal is open at it (the stack is
\* empty once its own start is pushed); rows before the first start are 0 and
\* rows with an open meal are positive.
C4_ZeroIffNoOpenMeal ==
  pc = "loop" =>
    /\ Len(active_meals) = Cardinality({s \in 1..i : OpenAt(s, i + 1)})
    /\ \A j \in 1..i :
         /\ labels[j] = 0 <=> OpenSet(j) = {}
         /\ StartsIn(1, j) = 0 => labels[j] = 0
         /\ OpenSet(j) # {} => labels[j] > 0

C4_Witness ==
  /\ pc = "loop"
  /\ i = 4
  /\ meal_start = <<FALSE, TRUE, FALSE, FALSE>>
  /\ meal_end = <<FALSE, FALSE, TRUE, FALSE>>
  /\ labels = <<0, 1, 1, 0>>

\* The frame with row j's msg_type replaced by m.
WithMsgType(frame, j, m) ==
  [frame EXCEPT !.rows[j] = [frame.rows[j] EXCEPT ![ColMsgType] = m]]

C5_Inv ==
  pc = "loop" =>
    /\ \A j \in 1..Len(labels) : labels[j] >= 0
    /\ i = Len(df.rows) =>
         \A j \in 1..i :
           (meal_end[j] /\ labels[j] = 0) =>
             create_meal_labels(WithMsgType(df, j, Str("NULL")))
               = [kind |-> "labels", labels |-> labels]

C5_Step ==
  (pc = "loop" /\ i < Len(df.rows) /\ meal_end[i + 1] /\ active_meals = <<>>) =>
    /\ pc' = "loop"
    /\ i' = i + 1
    /\ active_meals' = <<>>
    /\ meal_counter' = meal_counter
    /\ labels'[i + 1] = 0
    /\ \A j \in 1..Len(labels) : j # i + 1 => labels'[j] = labels[j]

\* C5: a meal-end row met with an empty stack raises nothing, leaves the stack
\* empty and the counter unchanged, is labelled 0, and leaves every other label
\* as it would be had the row been neither a start nor an end; no label is
\* negative.
C5_EndOnEmptyIsNoOp == [] C5_Inv /\ [][C5_Step]_vars

C5_Witness ==
  /\ pc = "loop"
  /\ i = 3
  /\ Len(df.rows) = 3
  /\ meal_end = <<TRUE, FALSE, FALSE>>
  /\ meal_start = <<FALSE, TRUE, FALSE>>
  /\ labels = <<0, 1, 1>>
  /\ meal_counter = 2

C7_Inv ==
  pc = "loop" =>
    /\ \A a \in 1..Len(active_meals) : active_meals[a] < meal_counter
    /\ \A j, h \in 1..i : (meal_start[j] /\ meal_start[h] /\ j # h) => labels[j] # labels[h]

C7_Step ==
  (pc = "loop" /\ pc' = "loop") =>
    /\ meal_counter' >= meal_counter
    /\ meal_counter' = meal_counter + (IF meal_start[i + 1] THEN 1 ELSE 0)
    /\ meal_start[i + 1] => active_meals' = Append(active_meals, meal_counter)
    /\ (~ meal_start[i + 1]) =>
         \A a \in 1..Len(active_meals') : active_meals'[a] = active_meals[a]

\* C7: within one pass the counter never decreases, grows by exactly 1 on a
\* meal-start row and not at all on any other row (a row that pops included),
\* so no identifier is pushed twice.
C7_NoReuse == [] C7_Inv /\ [][C7_Step]_vars

C7_Witness ==
  /\ pc = "loop"
  /\ i = 4
  /\ meal_start = <<TRUE, FALSE, TRUE, FALSE>>
  /\ meal_end = <<FALSE, TRUE, FALSE, TRUE>>
  /\ labels = <<1, 1, 2, 2>>
  /\ meal_counter = 3
  /\ active_meals = <<>>

\* C8: create_meal_labels run on what preprocess_data returned ends without an
\* error and returns one label per cleaned row.
C8_PipelineRuns ==
  (pc = "done" /\ src = "cleaned") =>
    /\ ColMsgType \in df.columns
    /\ ret.kind = "labels"
    /\ Len(ret.labels) = Len(df.rows)

\* The frame that keeps of each row only its two predicates.
Canon(frame) ==
  [columns |-> {ColMsgType},
   index |-> frame.index,
   rows |-> [p \in 1..Len(frame.rows) |->
               (ColMsgType :>
                  IF frame.rows[p][ColMsgType] = Str("ANNOUNCE_MEAL")
                    THEN Str("ANNOUNCE_MEAL")
                  ELSE IF frame.rows[p][ColMsgType] = Str("MEAL_END")
                    THEN Str("MEAL_END")
                  ELSE Str("NULL"))]]

\* C9: the labels depend on the two predicates of each row and on nothing else:
\* every call starts with an empty stack and identifier 1, returns what the
\* frame reduced to its predicates returns, and labels a frame without start
\* and end rows 0 throughout.
C9_PureInPredicates ==
  /\ (pc = "loop" /\ i = 0) =>
       /\ meal_counter = 1
       /\ active_meals = <<>>
       /\ labels = Zeros(Len(df.rows))
  /\ (pc = "done" /\ src = "direct") =>
       /\ ret.kind = "labels"
       /\ create_meal_labels(Canon(df)) = [kind |-> "labels", labels |-> ret.labels]
       /\ RowKinds(df) \cap {"ANNOUNCE_MEAL", "MEAL_END"} = {} =>
            ret.labels = Zeros(Len(df.rows))

C9_Witness ==
  /\ pc = "done"
  /\ src = "direct"
  /\ Len(df.rows) = 4
  /\ df.rows[1] = LabelRow(Str("DOSE_INSULIN"), Num(7))
  /\ df.rows[2] = LabelRow(Str("ANNOUNCE_MEAL"), Num(7))
  /\ df.rows[3] = LabelRow(Str("DOSE_INSULIN"), Num(0))
  /\ df.rows[4] = LabelRow(Str("MEAL_END"), Num(0))
  /\ ret.kind = "labels"
  /\ ret.labels = <<0, 1, 1, 1>>

\* The indexer of a stable sort: ascending, ties in the order of the input.
StableArgSort(keys) ==
  CHOOSE idx \in ArgSorts(keys) :
    \A a, b \in 1..Len(keys) : (a < b /\ keys[idx[a]] = keys[idx[b]]) => idx[a] < idx[b]

\* C10: what preprocess_data returns is in ascending order of timestamp, and
\* rows of equal timestamp keep their relative order of the input.
C10_SortedStable ==
  (pc = "done" /\ src = "raw" /\ ret.kind = "frame") =>
    /\ \A a, b \in 1..Len(ret.frame.rows) :
         a < b => ret.frame.index[a].n <= ret.frame.index[b].n
    /\ ret.frame =
         AfterSort(BeforeSort(df), StableArgSort(Column(BeforeSort(df), ColDate)))

(***************************************************************************)
(* preprocess_data: what the claims speak of, stated on the raw frame.     *)
(***************************************************************************)
Returned == pc = "done" /\ src = "raw" /\ ret.kind = "frame"

\* Row p of the raw frame carries a date text in the fixed format.
ParseableAt(frame, p) ==
  /\ frame.rows[p][ColDate].k = "str"
  /\ frame.rows[p][ColDate].s = "%Y-%m-%d %H:%M:%S%z"

GoodRows(frame) == {p \in 1..Len(frame.rows) : ParseableAt(frame, p)}

\* C11: preprocess_data returns a cleaned frame for every input, whatever is
\* missing or malformed in it, the empty frame and a frame without a single
\* parseable date included.
C11_NeverRaises == (pc = "done" /\ src = "raw") => ret.kind = "frame"

\* C12: the rows returned are exactly the rows of the input whose date parses:
\* each has a timestamp, each parseable input row is there once, none is added.
C12_DropsExactlyBadDates ==
  Returned =>
    LET out == ret.frame
        good == GoodRows(df)
    IN  /\ \A a \in 1..Len(out.rows) : out.index[a].k = "ts"
        /\ Len(out.index) = Len(out.rows)
        /\ Len(out.rows) = Cardinality(good)
        /\ \E f \in [1..Len(out.rows) -> good] :
             /\ \A a, b \in 1..Len(out.rows) : a # b => f[a] # f[b]
             /\ \A a \in 1..Len(out.rows) :
                  /\ out.index[a] = Ts(df.rows[f[a]][ColDate].n)
                  /\ ColBgl \in out.columns =>
                       out.rows[a][ColBgl] =
                         (IF df.rows[f[a]][ColBgl] = NaN THEN Num(0)
                          ELSE df.rows[f[a]][ColBgl])

C12_Witness ==
  /\ Returned
  /\ Len(df.rows) = 3
  /\ df.rows[1][ColDate] = Str("yesterday")
  /\ df.rows[2][ColDate] = DateStr(2)
  /\ df.rows[3][ColDate] = NaN
  /\ Len(ret.frame.rows) = 1
  /\ ret.frame.index = <<Ts(2)>>

\* The category of a raw row: its msg_type, "NULL" when that is missing.
CatOf(row) == IF row[ColMsgType] = NaN THEN "NULL" ELSE row[ColMsgType].s
ObservedCats(frame) == {CatOf(frame.rows[p]) : p \in GoodRows(frame)}
IndicatorCols(out) == {c \in out.columns : Contains(c, <<"msg_type">>)}

\* The raw row that row a of the returned frame was made from.
Origin(a) == KeptFrom([p \in 1..Len(df.rows) |-> ParseableAt(df, p)], 1)[indexer[a]]

\* C13: the indicator columns returned are those of the observed categories
\* among the five allow-listed ones and no other; the indicator of any other
\* observed category (NULL and MEAL_END included) and the msg_type column
\* itself are gone.
C13_OnlyAllowListed ==
  Returned =>
    LET out == ret.frame
    IN  /\ ColMsgType \notin out.columns
        /\ \A cat \in ObservedCats(df) :
             cat \notin RELEVANT_MSG_TYPES => FeatureName(cat) \notin out.columns
        /\ IndicatorCols(out) =
             {FeatureName(m) : m \in ObservedCats(df) \cap RELEVANT_MSG_TYPES}

\* C14: affects_fob and affects_iob come out as 0 or 1: 0 for an input of 0 or
\* a missing value, 1 for every other number (-1, 0.5, 2, ...).
C14_FlagsBinary ==
  Returned =>
    \A a \in 1..Len(ret.frame.rows) :
      \A c \in {ColFob, ColIob} :
        LET x == df.rows[Origin(a)][c]
            y == ret.frame.rows[a][c]
        IN  /\ y \in {Num(0), Num(1)}
            /\ y = Num(0) <=> x \in {Num(0), NaN}

C14_Witness ==
  /\ Returned
  /\ Len(df.rows) = 3
  /\ Len(ret.frame.rows) = 3
  /\ {df.rows[p][ColFob] : p \in 1..3} = {Num(2), Half(1), Num(0)}
  /\ {df.rows[p][ColIob] : p \in 1..3} = {Num(-1), Num(0), NaN}
  /\ \E a \in 1..3 :
       /\ df.rows[Origin(a)][ColFob] = Half(1)
       /\ ret.frame.rows[a][ColFob] = Num(1)
       /\ ret.frame.rows[a][ColIob] = Num(0)
  /\ \E a \in 1..3 :
       /\ df.rows[Origin(a)][ColIob] = Num(-1)
       /\ ret.frame.rows[a][ColIob] = Num(1)
  /\ \E a \in 1..3 :
       /\ df.rows[Origin(a)][ColIob] = NaN
       /\ ret.frame.rows[a][ColIob] = Num(0)

\* C17: in every returned row the indicator of an allow-listed category is 1
\* when the row's category was that category and 0 otherwise; a row whose
\* category was missing or is not allow-listed has 0 in every indicator that
\* is returned; no row has two indicators at 1.
C17_OneHotPerRow ==
  Returned =>
    LET out == ret.frame
    IN  \A a \in 1..Len(out.rows) :
          LET cat == CatOf(df.rows[Origin(a)])
          IN  /\ \A m \in RELEVANT_MSG_TYPES :
                   FeatureName(m) \in out.columns =>
                     out.rows[a][FeatureName(m)] = (IF cat = m THEN Num(1) ELSE Num(0))
              /\ cat \notin RELEVANT_MSG_TYPES =>
                   \A c \in IndicatorCols(out) : out.rows[a][c] = Num(0)
              /\ Cardinality({c \in IndicatorCols(out) : out.rows[a][c] = Num(1)}) <= 1

\* C18: every further column of the input (any but date, msg_type and the two
\* flags) is returned, whatever its name, each value as it was, a missing
\* value as 0.
C18_PassThrough ==
  Returned =>
    \A c \in df.columns \ {ColDate, ColMsgType, ColFob, ColIob} :
      /\ c \in ret.frame.columns
      /\ \A a \in 1..Len(ret.frame.rows) :
           ret.frame.rows[a][c] =
             (IF df.rows[Origin(a)][c] = NaN THEN Num(0) ELSE df.rows[Origin(a)][c])

\* What does hold of the further column when its name is left alone.
BglPassThrough ==
  (Returned /\ ColBgl \in df.columns) =>
    /\ ColBgl \in ret.frame.columns
    /\ \A a \in 1..Len(ret.frame.rows) :
         ret.frame.rows[a][ColBgl] =
           (IF df.rows[Origin(a)][ColBgl] = NaN THEN Num(0)
            ELSE df.rows[Origin(a)][ColBgl])

\* The meals open at row j other than the one on top.
BelowTop(j) == OpenSet(j) \ {MaxOf(OpenSet(j))}

C15_Inv ==
  pc = "loop" =>
    \A e \in 1..i :
      (meal_end[e] /\ OpenSet(e) # {}) =>
        /\ labels[e] = StartsIn(1, MaxOf(OpenSet(e)))
        /\ (e + 1 <= i /\ ~ meal_start[e + 1]) =>
             labels[e + 1] = (IF BelowTop(e) = {} THEN 0
                              ELSE StartsIn(1, MaxOf(BelowTop(e))))

C15_Step ==
  (pc = "loop" /\ i < Len(df.rows) /\ meal_end[i + 1] /\ active_meals # <<>>) =>
    /\ pc' = "loop"
    /\ i' = i + 1
    /\ labels'[i + 1] = active_meals[Len(active_meals)]
    /\ Len(active_meals') = Len(active_meals) - 1
    /\ active_meals' = SubSeq(active_meals, 1, Len(active_meals) - 1)

\* C15: a meal-end row met with a non-empty stack is labelled with the top of
\* the stack as it was before the pop, exactly one identifier is popped, and
\* the next row, when it is not a meal-start, is labelled with the identifier
\* that was directly below, or 0 when there was none.
C15_PopAfterLabel == [] C15_Inv /\ [][C15_Step]_vars

C15_Witness ==
  /\ pc = "loop"
  /\ i = 4
  /\ meal_start = <<TRUE, TRUE, FALSE, FALSE>>
  /\ meal_end = <<FALSE, FALSE, TRUE, FALSE>>
  /\ labels = <<1, 2, 2, 1>>
  /\ active_meals = <<1>>

\* C16: a meal-start row with no meal-end row after it in the data keeps every
\* row from it onwards positively labelled, and the last row then carries the
\* identifier of the last meal-start row.
C16_OpenToTheEnd ==
  pc = "loop" =>
    \A s \in 1..i :
      (meal_start[s] /\ EndsIn(s + 1, Len(df.rows)) = 0) =>
        /\ \A j \in s..i : labels[j] > 0
        /\ i = Len(df.rows) =>
             /\ labels[i] = StartsIn(1, i)
             /\ labels[i] = labels[MaxOf({p \in 1..i : meal_start[p]})]

C16_Witness ==
  /\ pc = "loop"
  /\ i = 4
  /\ Len(df.rows) = 4
  /\ meal_start = <<TRUE, FALSE, TRUE, FALSE>>
  /\ meal_end = <<FALSE, TRUE, FALSE, FALSE>>
  /\ labels = <<1, 1, 2, 2>>
  /\ active_meals = <<2>>

\* The pops performed on rows 1..j: the end rows that found a meal open.
PopsIn(j) == Cardinality({e \in 1..j : meal_end[e] /\ OpenSet(e) # {}})

\* C19: after every row the stack holds distinct identifiers, strictly
\* increasing from bottom to top, each between 1 and the number of meal-start
\* rows seen so far; its top is the largest open identifier; its depth is the
\* number of meal-start rows seen minus the number of pops performed, which is
\* never negative.
C19_StackInvariant ==
  pc = "loop" =>
    LET n == Len(active_meals)
        open == {StartsIn(1, s) : s \in {s \in 1..i : OpenAt(s, i + 1)}}
    IN  /\ \A a, b \in 1..n : a < b => active_meals[a] < active_meals[b]
        /\ \A a \in 1..n : active_meals[a] \in 1..StartsIn(1, i)
        /\ {active_meals[a] : a \in 1..n} = open
        /\ n > 0 => active_meals[n] = MaxOf(open)
        /\ StartsIn(1, i) - PopsIn(i) >= 0
        /\ n = StartsIn(1, i) - PopsIn(i)

C19_Witness ==
  /\ pc = "loop"
  /\ i = 4
  /\ meal_start = <<TRUE, TRUE, FALSE, TRUE>>
  /\ meal_end = <<FALSE, FALSE, TRUE, FALSE>>
  /\ labels = <<1, 2, 2, 3>>
  /\ active_meals = <<1, 3>>

====
